---- MODULE Spec2Model ----
(***************************************************************************)
(* A model of the bizops NL2SQL assistant: the planner                     *)
(* (services/agents/planner_agent.py), the intention analyzer              *)
(* (services/agents/intention_agent.py), the session store                 *)
(* (services/session_service.py over services/postgres.py) and the         *)
(* orchestrator (controller/assistant.py).                                 *)
(*                                                                         *)
(* Python dicts are TLA+ functions over their keys (a record is a dict     *)
(* with string keys), Python lists are sequences, a value that may be None *)
(* is a sequence of length 0 (None) or 1.  uuid4()/uuid7() are modelled as *)
(* a counter that hands out fresh, increasing identifiers.                 *)
(***************************************************************************)
EXTENDS Integers, Sequences, FiniteSets, TLC

VARIABLES
    nextId,            \* the uuid7 generator: the next fresh identifier
    intentions,        \* IntentionAgent.intentions : intention id -> intention
    plans,             \* PlannerAgent.plans        : plan id -> plan
    tasks,             \* PlannerAgent.tasks        : task id -> task
    lastCall,          \* the most recent planner / analyzer call and its outcome
    now,               \* the wall clock read by datetime.now()
    nextSession,       \* the uuid4 generator of session ids
    sessions,          \* table sessions          : session_id -> row
    session_variables, \* table session_variables : session_id -> key -> row
    issued,            \* the session ids callers have been handed
    turns,             \* the number of turns begun
    proc               \* the request handlers: where each is in its operation,
                       \* its local variables and the outcome of its last one

plannerVars == <<plans, tasks, lastCall>>

dbVars == <<now, nextSession, sessions, session_variables>>

storeVars == <<dbVars, issued, turns, proc>>

vars == <<nextId, intentions, plannerVars, storeVars>>

(***************************************************************************)
(* Bounds of the model.                                                    *)
(***************************************************************************)
\* how many identifiers the uuid generator may hand out in one behaviour
MaxIds == 4

\* how many plans the planner may hold in one behaviour
MaxPlans == 1

\* how many sessions may be created in one behaviour
MaxSessions == 1

\* how many sessions the tables handed to the expiry sweep hold
MaxSweepSessions == 2

\* how many turns (chat_completions calls) may begin in one behaviour
MaxTurns == 2

\* the last instant of the wall clock
MaxTime == 2

\* SessionService(session_timeout), in ticks of the model's clock
SessionTimeout == 1

(***************************************************************************)
(* Python helpers.                                                         *)
(***************************************************************************)
EmptyDict == [k \in {} |-> 0]

None == << >>

Some(v) == << v >>

\* dict.get(key, default)
Get(d, k, default) == IF k \in DOMAIN d THEN d[k] ELSE default

\* truthiness of dict.get(key) when the values are lists: a missing key gives
\* None (falsy), an empty list is falsy
TruthyList(d, k) == k \in DOMAIN d /\ Len(d[k]) > 0

\* d with d[k] = v added (a dict store)
Put(d, k, v) == [x \in DOMAIN d \cup {k} |-> IF x = k THEN v ELSE d[x]]

\* the values of a sequence, and the last element
Range(s) == {s[i] : i \in 1..Len(s)}

Last(s) == s[Len(s)]

(***************************************************************************)
(* planner_agent.py: enums.                                                *)
(***************************************************************************)
TaskType ==
    {"SQL_GENERATION", "DATA_QUERY", "SCHEMA_LOOKUP", "CLARIFICATION",
     "REFINEMENT", "EXPLANATION", "VALIDATION"}

TaskStatus == {"pending", "in_progress", "completed", "failed"}

(***************************************************************************)
(* intention_agent.py: enums.                                              *)
(***************************************************************************)
IntentionType ==
    {"sql_query", "data_exploration", "schema_inquiry", "clarification",
     "refinement", "explanation", "system_command"}

IntentionStatus == {"pending", "active", "completed", "failed"}

(***************************************************************************)
(* intention_agent.py: the analyzer.                                       *)
(***************************************************************************)
\* the prompts a caller sends
Prompts == {"find top 5 customers"}

\* analyze_completion_intention: the intention it builds for a prompt, with
\* the placeholder analysis of the source (sql_query, executable, no entities)
CompletionIntention(intention_id, prompt) ==
    [id |-> intention_id,
     type |-> "completion",
     source |-> [type |-> "prompt", content |-> prompt],
     analysis |->
        [primary_intent |-> "sql_query",
         sub_intents |-> << >>,
         entities |-> EmptyDict,
         is_executable |-> TRUE,
         execution_requirements |->
            [needs_clarification |-> FALSE, missing_parameters |-> << >>]],
     status |-> "pending",
     relationships |->
        [parent_intention |-> None,
         child_intentions |-> << >>,
         related_intentions |-> << >>],
     metadata |-> [intention_id |-> intention_id, version |-> 1]]

(***************************************************************************)
(* planner_agent.py: the task builders.  `uuid` is the first identifier    *)
(* the builder's uuid7() calls obtain; they are handed out in call order.  *)
(***************************************************************************)
\* a task dict as the builders create it (no "result" and no "plan_id" key)
NewTask(task_id, type, priority, dependencies, parameters) ==
    [task_id |-> task_id,
     type |-> type,
     priority |-> priority,
     dependencies |-> dependencies,
     parameters |-> parameters,
     status |-> "pending"]

\* a slip in _plan_completion_tasks: the validation task is made to depend
\* on its own, not yet appended, id
forward_plan_completion_tasks(primary_intent, sub_intents, entities, context, uuid) ==
    IF primary_intent = "sql_generation"
    THEN LET generation ==
                 NewTask(uuid, "SQL_GENERATION", 2, << >>,
                         [entities |-> entities, context |-> context])
         IN  << generation,
                NewTask(uuid + 1, "VALIDATION", 3, << uuid + 1 >>, EmptyDict) >>
    ELSE << >>

\* a slip in _plan_completion_tasks: the schema lookup is emitted for tables
\* only, a fields list alone does not ask for it
tables_only_plan_completion_tasks(primary_intent, sub_intents, entities, context, uuid) ==
    IF primary_intent = "sql_generation"
    THEN LET lookup ==
                 IF TruthyList(entities, "tables")
                 THEN << NewTask(uuid, "SCHEMA_LOOKUP", 1, << >>,
                                 [tables |-> Get(entities, "tables", << >>),
                                  fields |-> Get(entities, "fields", << >>)]) >>
                 ELSE << >>
             generation ==
                 NewTask(uuid + Len(lookup), "SQL_GENERATION", 2,
                         [i \in 1..Len(lookup) |-> lookup[i].task_id],
                         [entities |-> entities, context |-> context])
             upToGeneration == Append(lookup, generation)
         IN  Append(upToGeneration,
                    NewTask(uuid + Len(upToGeneration), "VALIDATION", 3,
                            << Last(upToGeneration).task_id >>, EmptyDict))
    ELSE << >>

_plan_completion_tasks(primary_intent, sub_intents, entities, context, uuid) ==
    IF primary_intent = "sql_generation"
    THEN LET lookup ==
                 IF TruthyList(entities, "tables") \/ TruthyList(entities, "fields")
                 THEN << NewTask(uuid, "SCHEMA_LOOKUP", 1, << >>,
                                 [tables |-> Get(entities, "tables", << >>),
                                  fields |-> Get(entities, "fields", << >>)]) >>
                 ELSE << >>
             generation ==
                 NewTask(uuid + Len(lookup), "SQL_GENERATION", 2,
                         [i \in 1..Len(lookup) |-> lookup[i].task_id],
                         [entities |-> entities, context |-> context])
             upToGeneration == Append(lookup, generation)
         IN  Append(upToGeneration,
                    NewTask(uuid + Len(upToGeneration), "VALIDATION", 3,
                            << Last(upToGeneration).task_id >>, EmptyDict))
    ELSE << >>

\* a slip in _plan_chat_tasks: the refinement task does not carry the
\* previous intents of the conversation state
forgetful_plan_chat_tasks(primary_intent, sub_intents, entities, context, conversation_state, uuid) ==
    IF primary_intent = "clarification"
    THEN << NewTask(uuid, "CLARIFICATION", 1, << >>,
                    [entities |-> entities,
                     context |-> context,
                     conversation_state |-> conversation_state]) >>
    ELSE IF primary_intent = "refinement"
    THEN << NewTask(uuid, "REFINEMENT", 1, << >>,
                    [entities |-> entities,
                     context |-> context,
                     conversation_state |-> conversation_state,
                     previous_intents |-> << >>]),
            NewTask(uuid + 1, "VALIDATION", 2, << uuid >>, EmptyDict) >>
    ELSE << >>

_plan_chat_tasks(primary_intent, sub_intents, entities, context, conversation_state, uuid) ==
    IF primary_intent = "clarification"
    THEN << NewTask(uuid, "CLARIFICATION", 1, << >>,
                    [entities |-> entities,
                     context |-> context,
                     conversation_state |-> conversation_state]) >>
    ELSE IF primary_intent = "refinement"
    THEN LET refinement ==
                 NewTask(uuid, "REFINEMENT", 1, << >>,
                         [entities |-> entities,
                          context |-> context,
                          conversation_state |-> conversation_state,
                          previous_intents |->
                              Get(conversation_state, "previous_intents", << >>)])
         IN  << refinement,
                NewTask(uuid + 1, "VALIDATION", 2, << refinement.task_id >>,
                        EmptyDict) >>
    ELSE << >>

\* the keys create_plan subscripts without a default: a missing one raises
HasPlanKeys(intention) ==
    /\ "type" \in DOMAIN intention
    /\ "analysis" \in DOMAIN intention
    /\ "primary_intent" \in DOMAIN intention.analysis
    /\ "metadata" \in DOMAIN intention
    /\ "intention_id" \in DOMAIN intention.metadata

\* the task list create_plan builds for an intention (lines 35-53)
PlanTasks(intention, uuid) ==
    LET intent_type == intention.type
        primary_intent == intention.analysis.primary_intent
        sub_intents == Get(intention.analysis, "sub_intents", << >>)
        entities == Get(intention.analysis, "entities", EmptyDict)
        context == Get(intention, "context", EmptyDict)
    IN  IF intent_type = "completion"
        THEN _plan_completion_tasks(primary_intent, sub_intents, entities,
                                    context, uuid)
        ELSE IF intent_type = "chat"
        THEN _plan_chat_tasks(primary_intent, sub_intents, entities, context,
                              Get(intention.analysis, "conversation_state",
                                  EmptyDict),
                              uuid)
        ELSE << >>

\* the plan dict create_plan stores and returns (lines 55-65); plan.tasks
\* holds the very task dicts PlannerAgent.tasks holds, so the model keeps
\* their ids here and the dicts in `tasks`
NewPlan(plan_id, intention, planTasks) ==
    [plan_id |-> plan_id,
     intention_id |-> intention.metadata.intention_id,
     type |-> intention.type,
     tasks |-> [i \in 1..Len(planTasks) |-> planTasks[i].task_id],
     status |-> "pending",
     metadata |-> [total_tasks |-> Len(planTasks)]]

\* create_plan(intention) when uuid7() next hands out `uuid`: what it raises
\* or returns, and the task dicts it registers
create_plan(intention, uuid) ==
    IF ~HasPlanKeys(intention)
    THEN [raised |-> TRUE, error |-> "Error creating plan", uuids |-> 1]
    ELSE LET planTasks == PlanTasks(intention, uuid + 1)
         IN  [raised |-> FALSE,
              plan |-> NewPlan(uuid, intention, planTasks),
              tasks |-> planTasks,
              uuids |-> 1 + Len(planTasks)]

\* get_plan(plan_id): what it raises or returns
get_plan(plan_id) ==
    IF plan_id \notin DOMAIN plans
    THEN [raised |-> TRUE, error |-> "Invalid plan ID", returned |-> None]
    ELSE [raised |-> FALSE, error |-> "", returned |-> Some(plans[plan_id])]

\* get_task(task_id): what it raises or returns
get_task(task_id) ==
    IF task_id \notin DOMAIN tasks
    THEN [raised |-> TRUE, error |-> "Invalid task ID", returned |-> None]
    ELSE [raised |-> FALSE, error |-> "", returned |-> Some(tasks[task_id])]

\* update_task_status that stores the status before it looks the task up
upserting_update_task_status(task_id, status, result) ==
    [raised |-> task_id \notin DOMAIN tasks,
     error |-> IF task_id \notin DOMAIN tasks THEN "Invalid task ID" ELSE "KeyError",
     tasks |-> Put(tasks, task_id,
                   IF task_id \in DOMAIN tasks
                   THEN [tasks[task_id] EXCEPT !.status = status]
                   ELSE [task_id |-> task_id, status |-> status]),
     plans |-> plans]

\* update_task_status(task_id, status, result): what it raises and the
\* planner state it leaves.  No builder gives a task a "plan_id" key, so the
\* lookup of the owning plan (line 213) raises KeyError after the task's
\* status and result have been stored.
update_task_status(task_id, status, result) ==
    IF task_id \notin DOMAIN tasks
    THEN [raised |-> TRUE, error |-> "Invalid task ID",
          tasks |-> tasks, plans |-> plans]
    ELSE LET withStatus == [tasks[task_id] EXCEPT !.status = status]
             task == IF result # None /\ result[1] # EmptyDict
                     THEN Put(withStatus, "result", result[1])
                     ELSE withStatus
             stored == [tasks EXCEPT ![task_id] = task]
         IN  IF "plan_id" \notin DOMAIN task \/ task.plan_id \notin DOMAIN plans
             THEN [raised |-> TRUE, error |-> "KeyError",
                   tasks |-> stored, plans |-> plans]
             ELSE LET plan == plans[task.plan_id]
                      all_tasks_completed ==
                          \A i \in 1..Len(plan.tasks) :
                              stored[plan.tasks[i]].status = "completed"
                  IN  [raised |-> FALSE, error |-> "",
                       tasks |-> stored,
                       plans |-> IF all_tasks_completed
                                 THEN [plans EXCEPT
                                          ![task.plan_id].status = "completed"]
                                 ELSE plans]

(***************************************************************************)
(* The intentions a caller hands to create_plan directly.                  *)
(***************************************************************************)
PlannerEntities ==
    { EmptyDict,
      [tables |-> << >>],
      [tables |-> <<"orders", "customers">>],
      [tables |-> << >>, fields |-> <<"total">>] }

ConversationStates ==
    { EmptyDict, [previous_intents |-> <<"sql_query">>] }

PlannerIntention(type, primary_intent, entities, conversation_state) ==
    [type |-> type,
     analysis |->
        [primary_intent |-> primary_intent,
         sub_intents |-> << >>,
         entities |-> entities,
         is_executable |-> TRUE,
         conversation_state |-> conversation_state],
     metadata |-> [intention_id |-> 0]]

\* a dict without the "type" key, as analyze_chat_intention returns
UntypedIntention ==
    [analysis |-> [primary_intent |-> "sql_query", is_executable |-> TRUE],
     metadata |-> [intention_id |-> 0]]

PlannerInputs ==
    { PlannerIntention("completion", p, e, EmptyDict) :
        p \in {"sql_generation", "sql_query"}, e \in PlannerEntities }
    \cup
    { PlannerIntention("chat", p, EmptyDict, c) :
        p \in {"clarification", "refinement", "sql_generation", "explanation"},
        c \in ConversationStates }
    \cup
    { PlannerIntention("whisper", p, EmptyDict, EmptyDict) :
        p \in {"sql_generation", "clarification"} }
    \cup {UntypedIntention}

\* an identifier the uuid generator never hands out
UnknownId == 0

TaskResults == { None, Some([rows |-> 1]) }

(***************************************************************************)
(* Planner and analyzer operations.                                        *)
(***************************************************************************)
AnalyzeCompletion(prompt) ==
    /\ nextId <= MaxIds
    /\ intentions' = Put(intentions, nextId, CompletionIntention(nextId, prompt))
    /\ nextId' = nextId + 1
    /\ lastCall' = [op |-> "analyze_completion_intention", raised |-> FALSE,
                    intention_id |-> nextId, prompt |-> prompt]
    /\ UNCHANGED <<plans, tasks, storeVars>>

CreatePlan(intention) ==
    LET r == create_plan(intention, nextId)
    IN  /\ nextId + r.uuids - 1 <= MaxIds
        /\ Cardinality(DOMAIN plans) < MaxPlans
        /\ nextId' = nextId + r.uuids
        /\ IF r.raised
           THEN /\ lastCall' = [op |-> "create_plan", raised |-> TRUE,
                                intention |-> intention]
                /\ UNCHANGED <<plans, tasks>>
           ELSE /\ plans' = Put(plans, r.plan.plan_id, r.plan)
                /\ tasks' =
                      [t \in DOMAIN tasks \cup
                              {r.tasks[i].task_id : i \in 1..Len(r.tasks)} |->
                          IF t \in DOMAIN tasks
                          THEN tasks[t]
                          ELSE r.tasks[CHOOSE i \in 1..Len(r.tasks) :
                                           r.tasks[i].task_id = t]]
                /\ lastCall' = [op |-> "create_plan", raised |-> FALSE,
                                intention |-> intention,
                                plan_id |-> r.plan.plan_id]
        /\ UNCHANGED <<intentions, storeVars>>

UpdateTaskStatus(task_id, status, result) ==
    LET r == update_task_status(task_id, status, result)
    IN  /\ tasks' = r.tasks
        /\ plans' = r.plans
        /\ lastCall' = [op |-> "update_task_status", raised |-> r.raised,
                        error |-> r.error, task_id |-> task_id]
        /\ UNCHANGED <<nextId, intentions, storeVars>>

GetPlan(plan_id) ==
    /\ lastCall' = [op |-> "get_plan", raised |-> get_plan(plan_id).raised,
                    error |-> get_plan(plan_id).error, plan_id |-> plan_id,
                    returned |-> get_plan(plan_id).returned]
    /\ UNCHANGED <<nextId, intentions, plans, tasks, storeVars>>

GetTask(task_id) ==
    /\ lastCall' = [op |-> "get_task", raised |-> get_task(task_id).raised,
                    error |-> get_task(task_id).error, task_id |-> task_id,
                    returned |-> get_task(task_id).returned]
    /\ UNCHANGED <<nextId, intentions, plans, tasks, storeVars>>

(***************************************************************************)
(* postgres.py: the session tables.  A value of a context is a Python      *)
(* value with its type, [type |-> type(v).__name__, val |-> v].  The       *)
(* isoformat()/fromisoformat() round trip of the timestamps keeps the      *)
(* instant, so a timestamp is the clock value itself.  Table chat_messages *)
(* is left out: add_chat_message has no caller, and Session.from_db does   *)
(* not read the chat_history get_session builds from it.                   *)
(***************************************************************************)
Str(v) == [type |-> "str", val |-> v]

List(v) == [type |-> "list", val |-> v]

SessionIds == 1..MaxSessions

\* update_session_context, lines 503-514: the row stored for a context value
VariableRow(value) ==
    [value_type |-> value.type,
     string_value |-> IF value.type = "str" THEN Some(value.val) ELSE None,
     json_value |-> IF value.type \in {"dict", "list"}
                    THEN Some(value.val) ELSE None]

\* get_session, lines 438-447: the context built from the rows of a session;
\* a row whose value_type is none of the four names it tests adds no key
\* (the contexts of the model hold no number and no boolean)
ContextOfRows(rows) ==
    [key \in {k \in DOMAIN rows : rows[k].value_type \in {"string", "json"}} |->
        IF rows[key].value_type = "string"
        THEN Str(rows[key].string_value[1])
        ELSE List(rows[key].json_value[1])]

\* create_session(session_id, created_at, last_accessed): the sessions table
\* afterwards; an INSERT of an existing session_id raises inside and is
\* swallowed
PostgresService_create_session(session_id, created_at, last_accessed) ==
    IF session_id \in DOMAIN sessions
    THEN sessions
    ELSE Put(sessions, session_id,
             [created_at |-> created_at,
              last_accessed |-> last_accessed,
              is_active |-> TRUE])

\* get_session(session_id): None, or the session_data dict
PostgresService_get_session(session_id) ==
    IF session_id \notin DOMAIN sessions
    THEN None
    ELSE Some([session_id |-> session_id,
               created_at |-> sessions[session_id].created_at,
               last_accessed |-> sessions[session_id].last_accessed,
               is_active |-> sessions[session_id].is_active,
               context |-> ContextOfRows(session_variables[session_id])])

\* update_session_context(session_id, context, last_accessed): both tables
\* afterwards.  Neither statement looks at is_active.  For a session_id with
\* no row the UPDATE changes nothing and the INSERTs raise on the foreign
\* key, which is swallowed.
PostgresService_update_session_context(session_id, context, last_accessed) ==
    IF session_id \notin DOMAIN sessions
    THEN [sessions |-> sessions, session_variables |-> session_variables]
    ELSE [sessions |->
              [sessions EXCEPT ![session_id].last_accessed = last_accessed],
          session_variables |->
              [session_variables EXCEPT ![session_id] =
                  [key \in DOMAIN @ \cup DOMAIN context |->
                      IF key \in DOMAIN context
                      THEN VariableRow(context[key])
                      ELSE @[key]]]]

\* Session calls self._db.update_session(session_id, context, last_accessed),
\* a method PostgresService does not define under that name; it is taken to
\* be the store's update of a session, which update_session_context
\* implements with the same parameters
PostgresService_update_session(session_id, context, last_accessed) ==
    PostgresService_update_session_context(session_id, context, last_accessed)

\* end_session(session_id): the sessions table afterwards (it returns True
\* whether or not a row was updated)
PostgresService_end_session(session_id) ==
    [s \in DOMAIN sessions |->
        IF s = session_id
        THEN [sessions[s] EXCEPT !.is_active = FALSE]
        ELSE sessions[s]]

\* cleanup_expired_sessions that also ends the sessions last accessed at
\* expiry_time itself
inclusive_cleanup_expired_sessions(expiry_time) ==
    [s \in DOMAIN sessions |->
        IF sessions[s].last_accessed <= expiry_time /\ sessions[s].is_active
        THEN [sessions[s] EXCEPT !.is_active = FALSE]
        ELSE sessions[s]]

\* cleanup_expired_sessions(expiry_time): the sessions table afterwards
PostgresService_cleanup_expired_sessions(expiry_time) ==
    [s \in DOMAIN sessions |->
        IF sessions[s].last_accessed < expiry_time /\ sessions[s].is_active
        THEN [sessions[s] EXCEPT !.is_active = FALSE]
        ELSE sessions[s]]

(***************************************************************************)
(* session_service.py: class Session.                                      *)
(***************************************************************************)
\* Session.__init__ without the context argument
contextless_Session_init(session_id, context) ==
    [session_id |-> session_id,
     context |-> EmptyDict,
     created_at |-> now,
     last_accessed |-> now,
     is_active |-> TRUE]

\* Session.__init__: the object (context or {}, both timestamps now, active)
Session_init(session_id, context) ==
    [session_id |-> session_id,
     context |-> IF context = None THEN EmptyDict ELSE context[1],
     created_at |-> now,
     last_accessed |-> now,
     is_active |-> TRUE]

\* Session.__init__ passes context= to create_session, a keyword the
\* create_session of postgres.py does not take; the call is taken to insert
\* the session row as that method does
PostgresService_create_session_with_context(session_id, context, created_at, last_accessed) ==
    PostgresService_create_session(session_id, created_at, last_accessed)

\* Session.from_db: the object for a session_data dict.  Its constructor
\* call inserts a session_id that exists, which changes nothing.
from_db(session_data) ==
    [session_id |-> session_data.session_id,
     context |-> session_data.context,
     created_at |-> session_data.created_at,
     last_accessed |-> session_data.last_accessed,
     is_active |-> session_data.is_active]

\* get_session without the is_active test of line 84
active_blind_get_session_finds(session_data) == session_data # None

\* SessionService.get_session, lines 79-87: whether the lookup goes on to
\* update_last_accessed and returns the session (otherwise it returns None)
get_session_finds(session_data) ==
    session_data # None /\ from_db(session_data[1]).is_active

\* SessionService.get_chat_history, line 110
chat_history_of(context) == Get(context, "chat_history", List(<< >>)).val

\* SessionService.add_to_chat_history, lines 121-127: the context with the
\* message appended to its chat_history
with_message(context, message) ==
    Put(context, "chat_history",
        List(Append(chat_history_of(context), message)))

(***************************************************************************)
(* The request handlers.  Each runs one operation at a time; a call of the *)
(* store (one PostgresService method) is one step.                         *)
(***************************************************************************)
Procs == {"p1", "p2"}

\* the session ids a caller may name: those it has been handed, and one
\* that names no session
UnknownSession == 0

RequestIds == issued \cup {UnknownSession}

\* the context a caller may send with a request
ContextArgs == { None, Some([database |-> Str("sales")]) }

NoOutcome ==
    [op |-> "none", session_id |-> 0, ok |-> FALSE, error |-> "",
     session |-> None, history |-> << >>, entry |-> None, overlapped |-> {},
     context |-> None, supplied |-> None, created |-> FALSE]

Outcome(op, session_id, ok, error) ==
    [NoOutcome EXCEPT !.op = op, !.session_id = session_id, !.ok = ok,
                      !.error = error]

\* a handler between two operations; ret is what its last operation returned
\* (supplied is the context argument of the operation, created tells that
\* the operation created its session)
Idle(ret) ==
    [pc |-> "idle", op |-> "none", stage |-> "", session_id |-> 0,
     query |-> "", context |-> EmptyDict, session |-> None,
     intention_id |-> 0, request_id |-> 0,
     overlapped |-> {}, supplied |-> None, created |-> FALSE, ret |-> ret]

\* handler p begins operation op on session_id at step pc
Begin(p, op, pc, stage, session_id, query) ==
    [Idle(NoOutcome) EXCEPT !.pc = pc, !.op = op, !.stage = stage,
                            !.session_id = session_id, !.query = query]

\* the turns in flight (overlapped records, for each turn, the turns that
\* were in flight at some moment of it; no operation reads it)
InTurn(q) == proc[q].op = "chat_completions"

\* handler p returns ret
Return(p, ret) ==
    proc' = [proc EXCEPT
                ![p] = Idle([ret EXCEPT !.overlapped = proc[p].overlapped,
                                        !.supplied = proc[p].supplied,
                                        !.created = proc[p].created])]

NotFound == "Session not found or expired"

\* the controller calls analyze_completion_intention(query=, session_id=,
\* context=), keywords the analyzer of intention_agent.py does not take; the
\* call is taken to build and register the analyzer's intention for the
\* query, with the classification (is_executable) the analysis arrives at
analyze_completion_intention_for(intention_id, query, session_id, context, is_executable) ==
    [CompletionIntention(intention_id, query)
        EXCEPT !.analysis.is_executable = is_executable]

\* _add_to_chat_history, lines 133-140, with the timestamp that
\* add_to_chat_history adds (line 126)
chat_message(query, intention_id, request_id) ==
    [user |-> query,
     assistant |-> "Generated response",
     metadata |-> [intention_id |-> intention_id, request_id |-> request_id],
     timestamp |-> now]

\* the clock advances
Tick ==
    /\ now < MaxTime
    /\ now' = now + 1
    /\ UNCHANGED <<nextId, intentions, plannerVars, nextSession, sessions,
                   session_variables, proc>>
    /\ UNCHANGED issued
    /\ UNCHANGED turns

\* SessionService.create_session(context)
CreateSession(p, context) ==
    /\ proc[p].pc = "idle"
    /\ nextSession <= MaxSessions
    /\ nextSession' = nextSession + 1
    /\ sessions' = PostgresService_create_session_with_context(
                       nextSession, Session_init(nextSession, context).context,
                       now, now)
    /\ proc' = [proc EXCEPT ![p] =
         Idle([Outcome("create_session", nextSession, TRUE, "")
                 EXCEPT !.session = Some(Session_init(nextSession, context))])]
    /\ UNCHANGED <<nextId, intentions, plannerVars, now, session_variables>>
    /\ issued' = issued \cup {nextSession}
    /\ UNCHANGED turns

\* chat_completions(query, context, session_id=None), lines 25-28
StartChatCompletionsNew(p, query, context) ==
    /\ proc[p].pc = "idle"
    /\ nextSession <= MaxSessions
    /\ nextSession' = nextSession + 1
    /\ sessions' = PostgresService_create_session_with_context(
                       nextSession, Session_init(nextSession, context).context,
                       now, now)
    /\ proc' = [q \in Procs |->
         IF q = p
         THEN [Begin(p, "chat_completions", "analyze", "resolve",
                     nextSession, query)
                 EXCEPT !.session = Some(Session_init(nextSession, context)),
                        !.context = Session_init(nextSession, context).context,
                        !.supplied = context,
                        !.created = TRUE,
                        !.overlapped = {r \in Procs \ {p} : InTurn(r)}]
         ELSE IF InTurn(q)
              THEN [proc[q] EXCEPT !.overlapped = @ \cup {p}]
              ELSE proc[q]]
    /\ UNCHANGED <<nextId, intentions, plannerVars, now, session_variables>>
    /\ UNCHANGED issued
    /\ turns < MaxTurns
    /\ turns' = turns + 1

\* chat_completions(query, context, session_id), line 30: the call of
\* get_session is entered
StartChatCompletions(p, query, session_id, context) ==
    /\ proc[p].pc = "idle"
    /\ proc' = [q \in Procs |->
         IF q = p
         THEN [Begin(p, "chat_completions", "get_session", "resolve",
                     session_id, query)
                 EXCEPT !.supplied = context,
                        !.overlapped = {r \in Procs \ {p} : InTurn(r)}]
         ELSE IF InTurn(q)
              THEN [proc[q] EXCEPT !.overlapped = @ \cup {p}]
              ELSE proc[q]]
    /\ UNCHANGED <<nextId, intentions, plannerVars, now, nextSession, sessions,
                   session_variables>>
    /\ UNCHANGED issued
    /\ turns < MaxTurns
    /\ turns' = turns + 1

\* SessionService.get_session(session_id) is called on its own
StartGetSession(p, session_id) ==
    /\ proc[p].pc = "idle"
    /\ proc' = [proc EXCEPT ![p] =
                  Begin(p, "get_session", "get_session", "", session_id, "")]
    /\ UNCHANGED <<nextId, intentions, plannerVars, now, nextSession, sessions,
                   session_variables>>
    /\ UNCHANGED issued
    /\ UNCHANGED turns

\* get_chat_history(session_id), line 107
StartGetChatHistory(p, session_id) ==
    /\ proc[p].pc = "idle"
    /\ proc' = [proc EXCEPT ![p] =
                  Begin(p, "get_chat_history", "get_session", "", session_id, "")]
    /\ UNCHANGED <<nextId, intentions, plannerVars, now, nextSession, sessions,
                   session_variables>>
    /\ UNCHANGED issued
    /\ UNCHANGED turns

\* what an operation returns when its get_session returns None
Miss(p) ==
    Outcome(proc[p].op, proc[p].session_id, FALSE,
            IF proc[p].op = "get_session" THEN "" ELSE NotFound)

\* SessionService.get_session, lines 79-84: the read and the test
GetSession(p) ==
    /\ proc[p].pc = "get_session"
    /\ LET session_data == PostgresService_get_session(proc[p].session_id)
       IN  IF get_session_finds(session_data)
           THEN proc' = [proc EXCEPT
                           ![p].pc = "update_last_accessed",
                           ![p].session = Some(from_db(session_data[1]))]
           ELSE Return(p, Miss(p))
    /\ UNCHANGED <<nextId, intentions, plannerVars, now, nextSession, sessions,
                   session_variables>>
    /\ UNCHANGED issued
    /\ UNCHANGED turns

\* SessionService.get_session, lines 85-86: Session.update_last_accessed,
\* and the caller's next lines up to its next call of the store
UpdateLastAccessed(p) ==
    /\ proc[p].pc = "update_last_accessed"
    /\ LET session == [proc[p].session[1] EXCEPT !.last_accessed = now]
           db == PostgresService_update_session(
                     session.session_id, session.context, session.last_accessed)
       IN  /\ sessions' = db.sessions
           /\ session_variables' = db.session_variables
           /\ CASE proc[p].op = "get_session" ->
                     Return(p, [Outcome("get_session", session.session_id,
                                        TRUE, "")
                                  EXCEPT !.session = Some(session)])
                [] proc[p].op = "get_chat_history" ->
                     Return(p, [Outcome("get_chat_history", session.session_id,
                                        TRUE, "")
                                  EXCEPT !.history =
                                      chat_history_of(session.context)])
                [] proc[p].op = "chat_completions" /\ proc[p].stage = "resolve" ->
                     proc' = [proc EXCEPT ![p].pc = "analyze",
                                          ![p].session = Some(session),
                                          ![p].context = session.context]
                [] proc[p].op = "chat_completions" /\ proc[p].stage = "persist" ->
                     proc' = [proc EXCEPT ![p].pc = "add_to_chat_history",
                                          ![p].session = Some(session)]
                [] proc[p].op = "chat" ->
                     proc' = [proc EXCEPT ![p].pc = "analyze_chat",
                                          ![p].session = Some(session),
                                          ![p].context = session.context]
    /\ UNCHANGED <<nextId, intentions, plannerVars, now, nextSession>>
    /\ UNCHANGED issued
    /\ UNCHANGED turns

\* chat_completions, the exception handler of lines 85-86; e is str(e)
Raised(p, e) ==
    Outcome("chat_completions", proc[p].session_id, FALSE, e)

\* the errors the handler reports for an exception of the analysis (line
\* 36), of the enrichment (line 43) and of plan["plan_id"] on the coroutine
\* object (line 61)
AnalysisError ==
    "Error in chat completions: Error analyzing completion intention"

EnrichmentError == "Error in chat completions: refine_context"

PlanError ==
    "Error in chat completions: 'coroutine' object is not subscriptable"

\* chat_completions going on to the persistence with an executable intention
\* whose plan could not be read
lenient_BuildResponse(p) ==
    /\ proc[p].pc = "analyze"
    /\ \/ /\ Return(p, Raised(p, AnalysisError))
          /\ UNCHANGED <<nextId, intentions>>
       \/ /\ nextId <= MaxIds
          /\ \E is_executable \in BOOLEAN :
               /\ intentions' = Put(intentions, nextId,
                     analyze_completion_intention_for(
                         nextId, proc[p].query, proc[p].session_id,
                         proc[p].context, is_executable))
               /\ \/ /\ Return(p, Raised(p, EnrichmentError))
                     /\ nextId' = nextId + 1
                  \/ /\ is_executable
                     /\ Return(p, Raised(p, PlanError))
                     /\ nextId' = nextId + 1
                  \/ /\ nextId + 1 <= MaxIds
                     /\ nextId' = nextId + 2
                     /\ proc' = [proc EXCEPT
                           ![p].intention_id = nextId,
                           ![p].request_id = nextId + 1,
                           ![p].pc = IF proc[p].context # EmptyDict
                                     THEN "update_context" ELSE "get_session",
                           ![p].stage = IF proc[p].context # EmptyDict
                                        THEN "resolve" ELSE "persist"]
    /\ UNCHANGED <<plannerVars, dbVars>>
    /\ UNCHANGED issued
    /\ UNCHANGED turns

\* chat_completions taking back the intention of a turn that fails later
rollback_BuildResponse(p) ==
    /\ proc[p].pc = "analyze"
    /\ \/ /\ Return(p, Raised(p, AnalysisError))
          /\ UNCHANGED <<nextId, intentions>>
       \/ /\ nextId <= MaxIds
          /\ \E is_executable \in BOOLEAN :
               LET registered == Put(intentions, nextId,
                     analyze_completion_intention_for(
                         nextId, proc[p].query, proc[p].session_id,
                         proc[p].context, is_executable))
               IN  \/ /\ Return(p, Raised(p, EnrichmentError))
                      /\ nextId' = nextId + 1
                      /\ intentions' = intentions
                   \/ /\ is_executable
                      /\ Return(p, Raised(p, PlanError))
                      /\ nextId' = nextId + 1
                      /\ intentions' = intentions
                   \/ /\ intentions' = registered
                      /\ ~is_executable
                      /\ nextId + 1 <= MaxIds
                      /\ nextId' = nextId + 2
                      /\ proc' = [proc EXCEPT
                            ![p].intention_id = nextId,
                            ![p].request_id = nextId + 1,
                            ![p].pc = IF proc[p].context # EmptyDict
                                      THEN "update_context" ELSE "get_session",
                            ![p].stage = IF proc[p].context # EmptyDict
                                         THEN "resolve" ELSE "persist"]
    /\ UNCHANGED <<plannerVars, dbVars>>
    /\ UNCHANGED issued
    /\ UNCHANGED turns

\* chat_completions, lines 36-72, which make no call of the session store.
\* Line 36 registers the intention or raises.  Line 43 calls
\* context_agent.refine_context(session_id, intention), which
\* context_agent.py does not define; the call is taken to compute the
\* refined context of the response, or to raise, and to leave the session
\* store alone.  For an executable intention line 48 calls the coroutine
\* function create_plan without awaiting it, so plan is a coroutine object
\* and plan["plan_id"] (line 61) raises TypeError; no plan is created.
\* Otherwise the response is built, with a fresh request_id.
BuildResponse(p) ==
    /\ proc[p].pc = "analyze"
    /\ \/ /\ Return(p, Raised(p, AnalysisError))
          /\ UNCHANGED <<nextId, intentions>>
       \/ /\ nextId <= MaxIds
          /\ \E is_executable \in BOOLEAN :
               /\ intentions' = Put(intentions, nextId,
                     analyze_completion_intention_for(
                         nextId, proc[p].query, proc[p].session_id,
                         proc[p].context, is_executable))
               /\ \/ /\ Return(p, Raised(p, EnrichmentError))
                     /\ nextId' = nextId + 1
                  \/ /\ is_executable
                     /\ Return(p, Raised(p, PlanError))
                     /\ nextId' = nextId + 1
                  \/ /\ ~is_executable
                     /\ nextId + 1 <= MaxIds
                     /\ nextId' = nextId + 2
                     /\ proc' = [proc EXCEPT
                           ![p].intention_id = nextId,
                           ![p].request_id = nextId + 1,
                           ![p].pc = IF proc[p].context # EmptyDict
                                     THEN "update_context" ELSE "get_session",
                           ![p].stage = IF proc[p].context # EmptyDict
                                        THEN "resolve" ELSE "persist"]
    /\ UNCHANGED <<plannerVars, dbVars>>
    /\ UNCHANGED issued
    /\ UNCHANGED turns

\* chat_completions, lines 75-76: Session.update_context(response["context"])
\* on the session object of lines 26/30 (response["context"] is that
\* object's own context dict)
UpdateContext(p) ==
    /\ proc[p].pc = "update_context"
    /\ LET session == proc[p].session[1]
           db == PostgresService_update_session(
                     session.session_id, session.context, session.last_accessed)
       IN  /\ sessions' = db.sessions
           /\ session_variables' = db.session_variables
    /\ proc' = [proc EXCEPT ![p].pc = "get_session", ![p].stage = "persist"]
    /\ UNCHANGED <<nextId, intentions, plannerVars, now, nextSession>>
    /\ UNCHANGED issued
    /\ UNCHANGED turns

\* add_to_chat_history, lines 121-131, on the session object its own
\* get_session returned, and the return of chat_completions (lines 80-83)
AddToChatHistory(p) ==
    /\ proc[p].pc = "add_to_chat_history"
    /\ LET session == proc[p].session[1]
           message == chat_message(proc[p].query, proc[p].intention_id,
                                   proc[p].request_id)
           context == with_message(session.context, message)
           db == PostgresService_update_session(
                     session.session_id, context, session.last_accessed)
       IN  /\ sessions' = db.sessions
           /\ session_variables' = db.session_variables
           /\ Return(p, [Outcome("chat_completions", session.session_id,
                                 TRUE, "")
                           EXCEPT !.entry = Some(message),
                                  !.context = Some(proc[p].context)])
    /\ UNCHANGED <<nextId, intentions, plannerVars, now, nextSession>>
    /\ issued' = issued \cup {proc[p].session_id}
    /\ UNCHANGED turns

\* end_session(session_id)
EndSession(p, session_id) ==
    /\ proc[p].pc = "idle"
    /\ sessions' = PostgresService_end_session(session_id)
    /\ proc' = [proc EXCEPT ![p] =
                  Idle(Outcome("end_session", session_id, TRUE, ""))]
    /\ UNCHANGED <<nextId, intentions, plannerVars, now, nextSession,
                   session_variables>>
    /\ UNCHANGED issued
    /\ UNCHANGED turns

\* SessionService.cleanup_expired_sessions(), run by no request handler (a
\* sweep that finds nothing to end leaves the state as it is)
CleanupExpiredSessions ==
    /\ sessions' = PostgresService_cleanup_expired_sessions(now - SessionTimeout)
    /\ sessions' # sessions
    /\ UNCHANGED <<nextId, intentions, plannerVars, now, nextSession,
                   session_variables, proc>>
    /\ UNCHANGED issued
    /\ UNCHANGED turns

InitStore ==
    /\ now = 0
    /\ nextSession = 1
    /\ sessions = EmptyDict
    /\ session_variables = [s \in SessionIds |-> EmptyDict]
    /\ issued = {}
    /\ turns = 0
    /\ proc = [p \in Procs |-> Idle(NoOutcome)]

Init ==
    /\ nextId = 1
    /\ intentions = EmptyDict
    /\ plans = EmptyDict
    /\ tasks = EmptyDict
    /\ lastCall = [op |-> "none", raised |-> FALSE]
    /\ InitStore

Next ==
    \/ Tick
    \/ \E p \in Procs, context \in ContextArgs : CreateSession(p, context)
    \/ \E p \in Procs, query \in Prompts, context \in ContextArgs :
           StartChatCompletionsNew(p, query, context)
    \/ \E p \in Procs, query \in Prompts, session_id \in RequestIds,
          context \in ContextArgs :
           StartChatCompletions(p, query, session_id, context)
    \/ \E p \in Procs, session_id \in RequestIds : StartGetSession(p, session_id)
    \/ \E p \in Procs, session_id \in RequestIds :
           StartGetChatHistory(p, session_id)
    \/ \E p \in Procs : GetSession(p)
    \/ \E p \in Procs : UpdateLastAccessed(p)
    \/ \E p \in Procs : BuildResponse(p)
    \/ \E p \in Procs : UpdateContext(p)
    \/ \E p \in Procs : AddToChatHistory(p)
    \/ \E p \in Procs, session_id \in RequestIds : EndSession(p, session_id)
    \/ CleanupExpiredSessions

Spec == Init /\ [][Next]_vars

NextPlanner ==
    \/ \E prompt \in Prompts : AnalyzeCompletion(prompt)
    \/ \E intention \in PlannerInputs : CreatePlan(intention)
    \/ \E i \in DOMAIN intentions : CreatePlan(intentions[i])
    \/ \E task_id \in DOMAIN tasks \cup {UnknownId},
          status \in TaskStatus, result \in TaskResults :
           UpdateTaskStatus(task_id, status, result)

SpecPlanner == Init /\ [][NextPlanner]_vars

\* the intentions handed to create_plan where the lookups by id are examined
LookupInputs ==
    { PlannerIntention("completion", "sql_generation",
                       [tables |-> <<"orders", "customers">>], EmptyDict),
      PlannerIntention("chat", "explanation", EmptyDict, EmptyDict) }

\* the planner's operations with its lookups by id
NextLookup ==
    \/ \E intention \in LookupInputs : CreatePlan(intention)
    \/ \E task_id \in DOMAIN tasks \cup {UnknownId},
          status \in TaskStatus, result \in TaskResults :
           UpdateTaskStatus(task_id, status, result)
    \/ \E plan_id \in DOMAIN plans \cup {UnknownId} : GetPlan(plan_id)
    \/ \E task_id \in DOMAIN tasks \cup {UnknownId} : GetTask(task_id)

SpecLookup == Init /\ [][NextLookup]_vars

\* the operations of SessionService alone, without the turns of the controller
NextSessions ==
    \/ Tick
    \/ \E p \in Procs, context \in ContextArgs : CreateSession(p, context)
    \/ \E p \in Procs, session_id \in RequestIds : StartGetSession(p, session_id)
    \/ \E p \in Procs, session_id \in RequestIds :
           StartGetChatHistory(p, session_id)
    \/ \E p \in Procs : GetSession(p)
    \/ \E p \in Procs : UpdateLastAccessed(p)
    \/ \E p \in Procs, session_id \in RequestIds : EndSession(p, session_id)
    \/ CleanupExpiredSessions

SpecSessions == Init /\ [][NextSessions]_vars

(***************************************************************************)
(* The expiry sweep on its own: it is applied, at any instant, to any      *)
(* sessions table the store can hold (rows with created_at <=              *)
(* last_accessed <= now), and the run is recorded in lastCall.             *)
(***************************************************************************)
SweepRows(time) ==
    { row \in [created_at : 0..time, last_accessed : 0..time,
               is_active : BOOLEAN] :
        row.created_at <= row.last_accessed }

SweepExpired ==
    /\ sessions' = PostgresService_cleanup_expired_sessions(now - SessionTimeout)
    /\ lastCall' = [op |-> "cleanup_expired_sessions", raised |-> FALSE,
                    expiry_time |-> now - SessionTimeout,
                    ended |-> {s \in DOMAIN sessions :
                                  sessions[s].is_active
                                      /\ ~sessions'[s].is_active}]
    /\ UNCHANGED <<nextId, intentions, plans, tasks, now, nextSession,
                   session_variables, issued, turns, proc>>

InitSweep ==
    /\ nextId = 1
    /\ intentions = EmptyDict
    /\ plans = EmptyDict
    /\ tasks = EmptyDict
    /\ lastCall = [op |-> "none", raised |-> FALSE]
    /\ now \in 0..MaxTime
    /\ sessions \in [1..MaxSweepSessions -> SweepRows(now)]
    /\ nextSession = MaxSweepSessions + 1
    /\ session_variables = [s \in 1..MaxSweepSessions |-> EmptyDict]
    /\ issued = 1..MaxSweepSessions
    /\ turns = 0
    /\ proc = [p \in Procs |-> Idle(NoOutcome)]

NextSweep ==
    \/ SweepExpired
    \/ Tick

SpecSweep == InitSweep /\ [][NextSweep]_vars

(***************************************************************************)
(* Properties of the session store and of the turns.                       *)
(***************************************************************************)
\* handler p's last operation was a turn that returned a response
TurnSucceeded(p) ==
    /\ proc[p].pc = "idle"
    /\ proc[p].ret.op = "chat_completions"
    /\ proc[p].ret.ok

\* the chat_history list the store holds for a session, whatever the
\* value_type of its row
StoredHistory(session_id) ==
    IF "chat_history" \in DOMAIN session_variables[session_id]
    THEN session_variables[session_id]["chat_history"].json_value[1]
    ELSE << >>

\* the turns p and q last returned from ran concurrently
Concurrent(p, q) ==
    /\ q \in proc[p].ret.overlapped
    /\ p \in proc[q].ret.overlapped

Live(session_id) ==
    session_id \in DOMAIN sessions /\ sessions[session_id].is_active

StoredValue(row) ==
    [type |-> row.value_type,
     val |-> IF row.string_value # None
             THEN row.string_value[1]
             ELSE row.json_value[1]]

C16_EndSessionReportsWhetherLive ==
    [][\A p \in Procs :
          ( /\ proc[p].pc = "idle"
            /\ proc'[p].pc = "idle"
            /\ proc'[p] # proc[p]
            /\ proc'[p].ret.op = "end_session" )
          => LET s == proc'[p].ret.session_id
             IN  /\ proc'[p].ret.ok = Live(s)
                 /\ Live(s) => ~sessions'[s].is_active
                 /\ ~Live(s) => /\ sessions' = sessions
                                /\ session_variables' = session_variables]_vars

C18_SweepEndsExactlyTheExpired ==
    [][( /\ lastCall'.op = "cleanup_expired_sessions"
         /\ now' = now
         /\ <<lastCall, sessions>>' # <<lastCall, sessions>> )
       => /\ DOMAIN sessions' = DOMAIN sessions
          /\ \A s \in DOMAIN sessions :
                IF sessions[s].is_active
                      /\ sessions[s].last_accessed < now - SessionTimeout
                THEN /\ ~sessions'[s].is_active
                     /\ sessions'[s].last_accessed = sessions[s].last_accessed
                     /\ sessions'[s].created_at = sessions[s].created_at
                ELSE sessions'[s] = sessions[s]]_vars

\* a sweep ended one session and left another one active
C18_Witness ==
    /\ lastCall.op = "cleanup_expired_sessions"
    /\ lastCall.ended # {}
    /\ \E s \in DOMAIN sessions : sessions[s].is_active

TasksOf(plan_id) ==
    [i \in 1..Len(plans[plan_id].tasks) |-> tasks[plans[plan_id].tasks[i]]]

AllTasksCompleted(plan_id) ==
    \A i \in 1..Len(plans[plan_id].tasks) :
        tasks[plans[plan_id].tasks[i]].status = "completed"

\* the last call was a create_plan that returned a plan
Created == lastCall.op = "create_plan" /\ ~lastCall.raised

\* C5: for every plan in every reachable state, plan.status is completed if
\* and only if every task of the plan has status completed (a plan with no
\* task included).
C5_PlanCompletedIffAllTasksCompleted ==
    \A plan_id \in DOMAIN plans :
        (plans[plan_id].status = "completed") <=> AllTasksCompleted(plan_id)

\* C6: in every plan create_plan produces, each task's dependencies name
\* only tasks that stand strictly earlier in the same plan.tasks sequence.
C6_DependenciesPointBackwards ==
    \A plan_id \in DOMAIN plans :
        \A i \in 1..Len(plans[plan_id].tasks) :
            \A d \in Range(TasksOf(plan_id)[i].dependencies) :
                \E j \in 1..(i - 1) : plans[plan_id].tasks[j] = d

\* a plan whose second and third task each depend on the task before
C6_Witness ==
    \E plan_id \in DOMAIN plans :
        /\ Len(plans[plan_id].tasks) = 3
        /\ TasksOf(plan_id)[2].dependencies = << plans[plan_id].tasks[1] >>
        /\ TasksOf(plan_id)[3].dependencies = << plans[plan_id].tasks[2] >>

\* the last call planned a completion intention with primary intent
\* sql_generation
CreatedSqlGeneration ==
    /\ Created
    /\ lastCall.intention.type = "completion"
    /\ lastCall.intention.analysis.primary_intent = "sql_generation"

NeedsLookup(intention) ==
    \/ TruthyList(Get(intention.analysis, "entities", EmptyDict), "tables")
    \/ TruthyList(Get(intention.analysis, "entities", EmptyDict), "fields")

IsTask(task, type, priority, dependencies) ==
    /\ task.type = type
    /\ task.priority = priority
    /\ task.dependencies = dependencies

\* C7: for a completion intention with primary intent sql_generation,
\* create_plan emits exactly: a schema_lookup task (priority 1, no
\* dependencies) first iff the entities hold a non-empty tables or fields
\* list; then a sql_generation task (priority 2) depending on exactly the
\* schema_lookup task if there is one and on nothing otherwise; then a
\* validation task (priority 3) depending only on the sql_generation task.
C7_SqlGenerationPlanShape ==
    CreatedSqlGeneration =>
        LET ts == TasksOf(lastCall.plan_id)
        IN  IF NeedsLookup(lastCall.intention)
            THEN /\ Len(ts) = 3
                 /\ IsTask(ts[1], "SCHEMA_LOOKUP", 1, << >>)
                 /\ IsTask(ts[2], "SQL_GENERATION", 2, << ts[1].task_id >>)
                 /\ IsTask(ts[3], "VALIDATION", 3, << ts[2].task_id >>)
            ELSE /\ Len(ts) = 2
                 /\ IsTask(ts[1], "SQL_GENERATION", 2, << >>)
                 /\ IsTask(ts[2], "VALIDATION", 3, << ts[1].task_id >>)

\* a sql_generation plan was just created for entities that name fields only
C7_Witness ==
    /\ CreatedSqlGeneration
    /\ ~TruthyList(lastCall.intention.analysis.entities, "tables")
    /\ TruthyList(lastCall.intention.analysis.entities, "fields")
    /\ Len(plans[lastCall.plan_id].tasks) = 3

\* C8: for every intention analyze_completion returns with is_executable
\* true, create_plan yields a non-empty task list whose last task is a
\* validation task depending on the preceding sql_generation task.
C8_AnalyzedCompletionPlanEndsInValidation ==
    \A plan_id \in DOMAIN plans :
        LET intention_id == plans[plan_id].intention_id
            ts == TasksOf(plan_id)
        IN  (/\ intention_id \in DOMAIN intentions
             /\ intentions[intention_id].type = "completion"
             /\ intentions[intention_id].analysis.is_executable)
            => /\ Len(ts) >= 2
               /\ ts[Len(ts)].type = "VALIDATION"
               /\ ts[Len(ts) - 1].type = "SQL_GENERATION"
               /\ ts[Len(ts)].dependencies = << ts[Len(ts) - 1].task_id >>

\* the last call planned a chat intention with the given primary intent
CreatedChat(primary_intent) ==
    /\ Created
    /\ lastCall.intention.type = "chat"
    /\ lastCall.intention.analysis.primary_intent = primary_intent

\* C9: for a chat intention, create_plan emits exactly one clarification
\* task (priority 1, no dependencies) when the primary intent is
\* clarification, and exactly a refinement task (priority 1, no
\* dependencies, carrying the previous intents of the conversation state)
\* followed by a validation task (priority 2) depending only on it when the
\* primary intent is refinement.
C9_ChatPlanShape ==
    /\ CreatedChat("clarification") =>
          LET ts == TasksOf(lastCall.plan_id)
          IN  /\ Len(ts) = 1
              /\ IsTask(ts[1], "CLARIFICATION", 1, << >>)
    /\ CreatedChat("refinement") =>
          LET ts == TasksOf(lastCall.plan_id)
          IN  /\ Len(ts) = 2
              /\ IsTask(ts[1], "REFINEMENT", 1, << >>)
              /\ ts[1].parameters.previous_intents =
                    Get(lastCall.intention.analysis.conversation_state,
                        "previous_intents", << >>)
              /\ IsTask(ts[2], "VALIDATION", 2, << ts[1].task_id >>)

\* a refinement plan was just created from a conversation state that holds
\* previous intents
C9_Witness ==
    /\ CreatedChat("refinement")
    /\ Get(lastCall.intention.analysis.conversation_state,
           "previous_intents", << >>) # << >>
    /\ Len(plans[lastCall.plan_id].tasks) = 2

\* the (type, primary_intent) combinations the planning rules name; the
\* analyzer's sql_query counts as a sql-generation intent here
PlannedCombination(intention) ==
    \/ intention.type = "completion"
       /\ intention.analysis.primary_intent \in {"sql_generation", "sql_query"}
    \/ intention.type = "chat"
       /\ intention.analysis.primary_intent \in {"clarification", "refinement"}

\* C10: for every intention whose (type, primary_intent) combination is not
\* a planned one, create_plan does not fail and returns a plan with an empty
\* task list whose status is completed as soon as it is returned.
C10_UnplannedCombinationGivesCompletedEmptyPlan ==
    (/\ lastCall.op = "create_plan"
     /\ HasPlanKeys(lastCall.intention)
     /\ ~PlannedCombination(lastCall.intention))
    => /\ ~lastCall.raised
       /\ plans[lastCall.plan_id].tasks = << >>
       /\ plans[lastCall.plan_id].status = "completed"

\* the status changes a task may make
TaskMoves ==
    { <<"pending", "in_progress">>,
      <<"in_progress", "completed">>,
      <<"in_progress", "failed">> }

\* C11: in every step, each registered task keeps its status or makes one of
\* the moves pending -> in_progress, in_progress -> completed, in_progress ->
\* failed; so completed and failed are terminal, pending never goes straight
\* to a terminal status, and no status goes back.
C11_TaskStatusFollowsLifecycle ==
    [][\A t \in DOMAIN tasks :
          \/ tasks'[t].status = tasks[t].status
          \/ <<tasks[t].status, tasks'[t].status>> \in TaskMoves]_vars

\* the plans that hold task t
PlansOf(t) == {plan_id \in DOMAIN plans : t \in Range(plans[plan_id].tasks)}

\* C13: when an update_task_status call moves a registered task to completed
\* and every task of its plan is completed afterwards, the call does not
\* raise and the plan's status is completed afterwards.
C13_LastTaskCompletedCompletesPlan ==
    [][\A t \in DOMAIN tasks : \A plan_id \in PlansOf(t) :
          ( /\ lastCall'.op = "update_task_status"
            /\ lastCall'.task_id = t
            /\ tasks[t].status # "completed"
            /\ tasks'[t].status = "completed"
            /\ \A i \in 1..Len(plans[plan_id].tasks) :
                  tasks'[plans[plan_id].tasks[i]].status = "completed" )
          => /\ ~lastCall'.raised
             /\ plans'[plan_id].status = "completed"]_vars

\* C14: a get_plan, get_task or update_task_status call whose id is not
\* registered raises the invalid-id exception, returns nothing, and leaves
\* every stored plan and task as it was.
C14_UnregisteredIdIsNotFound ==
    [][/\ (lastCall'.op = "get_plan" /\ lastCall'.plan_id \notin DOMAIN plans)
          => /\ lastCall'.raised
             /\ lastCall'.error = "Invalid plan ID"
             /\ lastCall'.returned = None
             /\ plans' = plans /\ tasks' = tasks
       /\ (lastCall'.op = "get_task" /\ lastCall'.task_id \notin DOMAIN tasks)
          => /\ lastCall'.raised
             /\ lastCall'.error = "Invalid task ID"
             /\ lastCall'.returned = None
             /\ plans' = plans /\ tasks' = tasks
       /\ (lastCall'.op = "update_task_status"
              /\ lastCall'.task_id \notin DOMAIN tasks)
          => /\ lastCall'.raised
             /\ lastCall'.error = "Invalid task ID"
             /\ plans' = plans /\ tasks' = tasks]_vars

\* an update_task_status with an unregistered id was refused while plans and
\* tasks are stored
C14_Witness ==
    /\ lastCall.op = "update_task_status"
    /\ lastCall.task_id \notin DOMAIN tasks
    /\ lastCall.raised
    /\ DOMAIN tasks # {}
    /\ DOMAIN plans # {}

(***************************************************************************)
(* context_agent.py: the enrichment.  The controller calls                 *)
(* context_agent.refine_context(session_id, intention) (assistant.py, line *)
(* 43); the enrichment ContextAgent has is enrich_context(intention).  The *)
(* five searches read the vector store and the knowledge graph; what they  *)
(* find is opaque here, and each may raise.                                *)
(***************************************************************************)
\* the searches of enrich_context, in call order (lines 299-303)
Searches ==
    << "database_metadata", "table_metadata", "query_examples",
       "schema_relationships", "intention_task_relationships" >>

\* which search raises, if any
SearchFailures == {"none"} \cup Range(Searches)

\* the "results" a search returns
ResultsOf(search, intention) == [search |-> search, intention_id |-> intention.id]

\* the searches enrich_context has called when `failing` raises: those up
\* to and including it, or all five
Searched(failing) ==
    IF failing = "none"
    THEN Searches
    ELSE SubSeq(Searches, 1, CHOOSE i \in 1..Len(Searches) : Searches[i] = failing)

\* the check of the database name done after the searches instead of
\* before them
late_checking_enrich_context(intention, failing, uuid) ==
    IF failing # "none"
    THEN [raised |-> TRUE,
          error |-> "Error enriching context: Error searching",
          failed |-> failing,
          searched |-> Searched(failing),
          returned |-> None]
    ELSE IF \/ "database_name" \notin DOMAIN intention.analysis
            \/ intention.analysis.database_name = ""
    THEN [raised |-> TRUE,
          error |-> "Error enriching context: Database name not found in intention",
          failed |-> "none",
          searched |-> Searches,
          returned |-> None]
    ELSE [raised |-> FALSE, error |-> "", failed |-> "none",
          searched |-> Searches,
          returned |-> Some([metadata |-> [context_id |-> uuid,
                                           intention_id |-> intention.id]])]

\* enrich_context(intention); uuid is the context_id its uuid7() obtains.
\* searched lists the searches it has called, failed the one that raised.
enrich_context(intention, failing, uuid) ==
    IF \/ "database_name" \notin DOMAIN intention.analysis
       \/ intention.analysis.database_name = ""
    THEN [raised |-> TRUE,
          error |-> "Error enriching context: Database name not found in intention",
          failed |-> "none",
          searched |-> << >>,
          returned |-> None]
    ELSE IF failing # "none"
    THEN [raised |-> TRUE,
          error |-> "Error enriching context: Error searching",
          failed |-> failing,
          searched |-> Searched(failing),
          returned |-> None]
    ELSE [raised |-> FALSE,
          error |-> "",
          failed |-> "none",
          searched |-> Searches,
          returned |-> Some(
            [database_context |->
                [database_metadata |-> ResultsOf(Searches[1], intention),
                 table_metadata |-> ResultsOf(Searches[2], intention),
                 query_examples |-> ResultsOf(Searches[3], intention),
                 schema_relationships |-> ResultsOf(Searches[4], intention)],
             task_context |-> ResultsOf(Searches[5], intention),
             metadata |->
                [timestamp |-> now,
                 context_id |-> uuid,
                 intention_id |-> intention.id,
                 database_name |-> intention.analysis.database_name]])]

\* the number of refinements followed
MaxRefinements == 3

\* the sessions whose context is refined
RefineSessions == 1..(MaxSessions + 1)

\* an intention that names its database
WithDatabase(intention, database_name) ==
    [intention EXCEPT
        !.analysis = Put(intention.analysis, "database_name", database_name)]

\* the intentions handed to the enrichment: the analyzer's own, and the
\* same with a database name in its analysis
RefineInputs ==
    LET analyzed == { CompletionIntention(i, prompt) :
                        i \in 1..2, prompt \in Prompts }
    IN  analyzed \cup { WithDatabase(intention, "sales") : intention \in analyzed }

\* the refinements made so far, oldest first
Refinements == IF lastCall.op = "enrich_context" THEN lastCall.refinements ELSE << >>

\* one refinement of the context of session_id for intention
RefineContext(session_id, intention, failing) ==
    LET r == enrich_context(intention, failing, nextId)
    IN  /\ nextId <= MaxIds
        /\ nextId' = IF r.raised THEN nextId ELSE nextId + 1
        /\ lastCall' =
              [op |-> "enrich_context", raised |-> r.raised, error |-> r.error,
               intention |-> intention, failed |-> r.failed,
               searched |-> r.searched, returned |-> r.returned,
               refinements |->
                  Append(Refinements,
                         [session_id |-> session_id,
                          intention_id |-> intention.id,
                          raised |-> r.raised,
                          returned |-> r.returned])]
        /\ Len(Refinements) < MaxRefinements
        /\ UNCHANGED <<intentions, plans, tasks, storeVars>>

NextEnrich ==
    \E session_id \in RefineSessions, intention \in RefineInputs,
       failing \in SearchFailures :
        RefineContext(session_id, intention, failing)

SpecEnrich == Init /\ [][NextEnrich]_vars

\* the refinements of session_id that returned a refined context
Refined(session_id) ==
    { i \in 1..Len(Refinements) :
        /\ Refinements[i].session_id = session_id
        /\ ~Refinements[i].raised }

Lower(word) ==
    CASE word = "Explain" -> "explain"
      [] word = "EXPLAIN" -> "explain"
      [] word = "Show" -> "show"
      [] OTHER -> word

\* "explain" in message.lower(), line 166
MentionsExplain(words) == \E i \in 1..Len(words) : Lower(words[i]) = "explain"

\* the messages a caller sends
ChatMessages ==
    { None, Some(<< >>), Some(<<"Show", "sales">>),
      Some(<<"Explain", "the", "sales">>) }

\* the primary intention of analyze_chat_intention, lines 92-122
ChatIntention(intention_id, message, session_id) ==
    [id |-> intention_id,
     type |-> "chat",
     source |-> [type |-> "message", content |-> message,
                 session_id |-> session_id],
     analysis |->
        [primary_intent |-> "sql_query",
         sub_intents |-> << >>,
         entities |-> EmptyDict,
         is_executable |-> TRUE,
         execution_requirements |->
            [needs_clarification |-> FALSE, missing_parameters |-> << >>]],
     status |-> "pending",
     relationships |->
        [parent_intention |-> None,
         child_intentions |-> << >>,
         related_intentions |-> << >>],
     metadata |-> [intention_id |-> intention_id, version |-> 1,
                   session_id |-> session_id]]

\* the explanation intention of _predict_additional_intentions, lines 169-199
ExplanationIntention(explanation_id, message, primary_intention) ==
    [id |-> explanation_id,
     type |-> "chat",
     source |-> [type |-> "derived", content |-> message,
                 session_id |-> primary_intention.source.session_id],
     analysis |->
        [primary_intent |-> "explanation",
         sub_intents |-> << >>,
         entities |-> EmptyDict,
         is_executable |-> FALSE,
         execution_requirements |->
            [needs_clarification |-> FALSE, missing_parameters |-> << >>]],
     status |-> "pending",
     relationships |->
        [parent_intention |-> Some(primary_intention.id),
         child_intentions |-> << >>,
         related_intentions |-> << >>],
     metadata |-> [intention_id |-> explanation_id, version |-> 1,
                   session_id |-> primary_intention.source.session_id]]

\* _predict_additional_intentions; uuid is the id its uuid7() would obtain.
\* message.lower() raises AttributeError when message is no string.
_predict_additional_intentions(message, primary_intention, intention_history, uuid) ==
    IF message = None
    THEN [raised |-> TRUE,
          error |-> "Error predicting additional intentions",
          additional_intentions |-> << >>, uuids |-> 0]
    ELSE IF MentionsExplain(message[1])
    THEN [raised |-> FALSE, error |-> "",
          additional_intentions |->
              << ExplanationIntention(uuid, message, primary_intention) >>,
          uuids |-> 1]
    ELSE [raised |-> FALSE, error |-> "",
          additional_intentions |-> << >>, uuids |-> 0]

\* lines 86-88
intention_history_of(context) ==
    IF context # None /\ "intention_history" \in DOMAIN context[1]
    THEN context[1].intention_history
    ELSE << >>

\* a handler inside analyze_chat_intention, with the call's local variables
InAnalyzeChat(pc, message, primary_intention, additional_intentions, k) ==
    [pc |-> pc, op |-> "analyze_chat_intention", message |-> message,
     primary_intention |-> primary_intention,
     additional_intentions |-> additional_intentions, k |-> k]

\* analyze_chat_intention registering the primary intention as soon as it
\* is built, before the additional intentions are predicted
eager_AnalyzeChat(p, message, session_id, context) ==
    LET primary_intention == ChatIntention(nextId, message, session_id)
        predicted == _predict_additional_intentions(
                         message, primary_intention,
                         intention_history_of(context), nextId + 1)
    IN  /\ proc[p].pc = "idle"
        /\ nextId + predicted.uuids <= MaxIds
        /\ nextId' = nextId + 1 + predicted.uuids
        /\ intentions' = Put(intentions, nextId, primary_intention)
        /\ IF predicted.raised
           THEN /\ lastCall' = [op |-> "analyze_chat_intention",
                                raised |-> TRUE,
                                error |-> "Error analyzing chat intention",
                                message |-> message, registered |-> {}]
                /\ UNCHANGED proc
           ELSE /\ proc' = [proc EXCEPT ![p] =
                     InAnalyzeChat("register_primary", message,
                                   primary_intention, << >>, 1)]
                /\ UNCHANGED lastCall
        /\ UNCHANGED <<plans, tasks, dbVars, issued, turns>>

\* analyze_chat_intention, lines 82-131: the call's local steps, up to its
\* first write of self.intentions
AnalyzeChat(p, message, session_id, context) ==
    LET primary_intention == ChatIntention(nextId, message, session_id)
        predicted == _predict_additional_intentions(
                         message, primary_intention,
                         intention_history_of(context), nextId + 1)
        additional_intentions == predicted.additional_intentions
        child_intentions == [i \in 1..Len(additional_intentions) |->
                                additional_intentions[i].id]
    IN  /\ proc[p].pc = "idle"
        /\ nextId + predicted.uuids <= MaxIds
        /\ nextId' = nextId + 1 + predicted.uuids
        /\ IF predicted.raised
           THEN /\ lastCall' = [op |-> "analyze_chat_intention",
                                raised |-> TRUE,
                                error |-> "Error analyzing chat intention",
                                message |-> message, registered |-> {}]
                /\ UNCHANGED proc
           ELSE /\ proc' = [proc EXCEPT ![p] =
                     InAnalyzeChat(
                        IF Len(additional_intentions) > 0
                        THEN "register_additional" ELSE "register_primary",
                        message,
                        IF Len(additional_intentions) > 0
                        THEN [primary_intention EXCEPT
                                 !.relationships.child_intentions =
                                     child_intentions]
                        ELSE primary_intention,
                        additional_intentions, 1)]
                /\ UNCHANGED lastCall
        /\ UNCHANGED <<intentions, plans, tasks, dbVars, issued, turns>>

\* lines 134-136: one turn of the loop over additional_intentions
RegisterAdditional(p) ==
    /\ proc[p].pc = "register_additional"
    /\ LET intention == proc[p].additional_intentions[proc[p].k]
       IN  intentions' = Put(intentions, intention.id,
               [intention EXCEPT !.relationships.parent_intention =
                                     Some(proc[p].primary_intention.id)])
    /\ proc' = [proc EXCEPT
          ![p].k = @ + 1,
          ![p].pc = IF proc[p].k = Len(proc[p].additional_intentions)
                    THEN "register_primary" ELSE "register_additional"]
    /\ UNCHANGED <<nextId, plannerVars, dbVars, issued, turns>>

\* lines 138-149: the primary intention is registered and the call returns
RegisterPrimary(p) ==
    /\ proc[p].pc = "register_primary"
    /\ intentions' = Put(intentions, proc[p].primary_intention.id,
                         proc[p].primary_intention)
    /\ lastCall' =
          [op |-> "analyze_chat_intention", raised |-> FALSE, error |-> "",
           message |-> proc[p].message,
           registered |->
              {proc[p].primary_intention.id} \cup
              {proc[p].additional_intentions[i].id :
                  i \in 1..Len(proc[p].additional_intentions)}]
    /\ proc' = [proc EXCEPT ![p] = Idle(NoOutcome)]
    /\ UNCHANGED <<nextId, plans, tasks, dbVars, issued, turns>>

\* get_related_intentions(intention_id)
get_related_intentions(intention_id) ==
    IF intention_id \notin DOMAIN intentions
    THEN [raised |-> TRUE, error |-> "Invalid intention ID", returned |-> << >>]
    ELSE LET relationships == intentions[intention_id].relationships
             related_ids == relationships.child_intentions
                               \o relationships.related_intentions
                               \o relationships.parent_intention
         IN  [raised |-> FALSE, error |-> "",
              returned |-> SelectSeq(related_ids,
                                     LAMBDA i : i \in DOMAIN intentions)]

GetRelatedIntentions(intention_id) ==
    /\ lastCall' = [op |-> "get_related_intentions",
                    raised |-> get_related_intentions(intention_id).raised,
                    error |-> get_related_intentions(intention_id).error,
                    intention_id |-> intention_id,
                    returned |-> get_related_intentions(intention_id).returned]
    /\ UNCHANGED <<nextId, intentions, plans, tasks, storeVars>>

\* the session the analyzed messages belong to
ChatSession == 1

\* the analyzer's operations, called from the request threads
NextAnalyzer ==
    \/ \E p \in Procs, message \in ChatMessages, context \in ContextArgs :
           AnalyzeChat(p, message, ChatSession, context)
    \/ \E p \in Procs : RegisterAdditional(p)
    \/ \E p \in Procs : RegisterPrimary(p)
    \/ \E prompt \in Prompts \cup {""} : AnalyzeCompletion(prompt)
    \/ \E intention_id \in DOMAIN intentions \cup {UnknownId} :
           GetRelatedIntentions(intention_id)

SpecAnalyzer == Init /\ [][NextAnalyzer]_vars

\* C23: no one-sided edge is visible in the intention store: a registered
\* intention's parent is registered and lists it as a child, and every
\* child a registered intention lists is registered with it as parent
C23_NoOneSidedEdge ==
    \A i \in DOMAIN intentions :
        /\ \A parent \in Range(intentions[i].relationships.parent_intention) :
              /\ parent \in DOMAIN intentions
              /\ i \in Range(intentions[parent].relationships.child_intentions)
        /\ \A child \in Range(intentions[i].relationships.child_intentions) :
              /\ child \in DOMAIN intentions
              /\ intentions[child].relationships.parent_intention = Some(i)

\* C24: intention analysis of an empty or missing message fails and
\* registers no intention
C24_EmptyMessageIsInvalidRequest ==
    /\ ( /\ lastCall.op = "analyze_chat_intention"
         /\ lastCall.message \in {None, Some(<< >>)} )
       => lastCall.raised /\ lastCall.registered = {}
    /\ ( /\ lastCall.op = "analyze_completion_intention"
         /\ lastCall.prompt = "" )
       => lastCall.raised /\ lastCall.intention_id \notin DOMAIN intentions

\* C25: a call of the analysis that fails leaves the intention store
\* exactly as it was
C25_FailedAnalysisRegistersNothing ==
    [][( /\ lastCall'.op = "analyze_chat_intention"
         /\ lastCall'.raised
         /\ nextId' # nextId
         /\ \A p \in Procs : proc'[p] = proc[p] )
       => intentions' = intentions]_vars

C25_Witness ==
    /\ lastCall.op = "analyze_chat_intention"
    /\ lastCall.raised
    /\ lastCall.registered = {}
    /\ intentions # EmptyDict
    /\ nextId - 1 \notin DOMAIN intentions

(***************************************************************************)
(* The turns of chat_completions, with end_session: at one instant, and    *)
(* below from one caller at a time while the clock advances and the        *)
(* expiry sweep runs.                                                      *)
(***************************************************************************)
NextTurns ==
    \/ \E p \in Procs, query \in Prompts, context \in ContextArgs :
           StartChatCompletionsNew(p, query, context)
    \/ \E p \in Procs, query \in Prompts, session_id \in RequestIds,
          context \in ContextArgs :
           StartChatCompletions(p, query, session_id, context)
    \/ \E p \in Procs : GetSession(p)
    \/ \E p \in Procs : UpdateLastAccessed(p)
    \/ \E p \in Procs : BuildResponse(p)
    \/ \E p \in Procs : UpdateContext(p)
    \/ \E p \in Procs : AddToChatHistory(p)
    \/ \E p \in Procs, session_id \in RequestIds : EndSession(p, session_id)

SpecTurns == Init /\ [][NextTurns]_vars

\* the caller of the sequential turns
OneCaller == {"p1"}

NextSequential ==
    \/ Tick
    \/ \E p \in OneCaller, query \in Prompts, context \in ContextArgs :
           StartChatCompletionsNew(p, query, context)
    \/ \E p \in OneCaller, query \in Prompts, session_id \in RequestIds,
          context \in ContextArgs :
           StartChatCompletions(p, query, session_id, context)
    \/ \E p \in OneCaller : GetSession(p)
    \/ \E p \in OneCaller : UpdateLastAccessed(p)
    \/ \E p \in OneCaller : BuildResponse(p)
    \/ \E p \in OneCaller : UpdateContext(p)
    \/ \E p \in OneCaller : AddToChatHistory(p)
    \/ \E p \in OneCaller, session_id \in RequestIds :
           EndSession(p, session_id)
    \/ CleanupExpiredSessions

SpecSequential == Init /\ [][NextSequential]_vars

\* handler p is in a turn of chat_completions
Turn(p) == proc[p].op = "chat_completions"

StageRank(h) ==
    CASE h.pc = "get_session" /\ h.stage = "resolve" -> 1
      [] h.pc = "update_last_accessed" /\ h.stage = "resolve" -> 2
      [] h.pc = "analyze" -> 3
      [] h.pc = "update_context" -> 4
      [] h.pc = "get_session" /\ h.stage = "persist" -> 5
      [] h.pc = "update_last_accessed" /\ h.stage = "persist" -> 6
      [] h.pc = "add_to_chat_history" -> 7
      [] OTHER -> 0

\* the plans made for an intention
PlansFor(intention_id) ==
    { plan_id \in DOMAIN plans : plans[plan_id].intention_id = intention_id }

ChatRaised(p, e) == Outcome("chat", proc[p].session_id, FALSE, e)

ChatAnalysisError == "Error in chat: Error analyzing chat intention"

ChatEnrichmentError == "Error in chat: refine_context"

ChatKeyError == "Error in chat: 'analysis'"

\* chat(websocket, message, session_id=None, context), lines 152-155
StartChatNew(p, message, context) ==
    /\ proc[p].pc = "idle"
    /\ nextSession <= MaxSessions
    /\ turns < MaxTurns
    /\ turns' = turns + 1
    /\ nextSession' = nextSession + 1
    /\ sessions' = PostgresService_create_session_with_context(
                       nextSession, Session_init(nextSession, context).context,
                       now, now)
    /\ proc' = [proc EXCEPT ![p] =
         [Begin(p, "chat", "analyze_chat", "resolve", nextSession, message)
            EXCEPT !.session = Some(Session_init(nextSession, context)),
                   !.context = Session_init(nextSession, context).context]]
    /\ UNCHANGED <<nextId, intentions, plannerVars, now, session_variables,
                   issued>>

\* chat(websocket, message, session_id, context), line 157: the call of
\* get_session is entered
StartChat(p, message, session_id) ==
    /\ proc[p].pc = "idle"
    /\ turns < MaxTurns
    /\ turns' = turns + 1
    /\ proc' = [proc EXCEPT ![p] =
         Begin(p, "chat", "get_session", "resolve", session_id, message)]
    /\ UNCHANGED <<nextId, intentions, plannerVars, dbVars, issued>>

\* chat(), lines 163-173: the analysis, the refinement (taken, as in
\* chat_completions, to return or to raise) and the test of line 173
ChatRespond(p) ==
    LET message == proc[p].query
        primary_intention == ChatIntention(nextId, message, proc[p].session_id)
        predicted == _predict_additional_intentions(
                         message, primary_intention,
                         intention_history_of(Some(proc[p].context)),
                         nextId + 1)
        additional_intentions == predicted.additional_intentions
        related == [primary_intention EXCEPT
                       !.relationships.child_intentions =
                           [i \in 1..Len(additional_intentions) |->
                               additional_intentions[i].id]]
        registered ==
            [i \in DOMAIN intentions \cup {nextId} \cup
                   {additional_intentions[k].id :
                       k \in 1..Len(additional_intentions)} |->
                IF i = nextId THEN related
                ELSE IF \E k \in 1..Len(additional_intentions) :
                            additional_intentions[k].id = i
                THEN additional_intentions[
                         CHOOSE k \in 1..Len(additional_intentions) :
                             additional_intentions[k].id = i]
                ELSE intentions[i]]
    IN  /\ proc[p].pc = "analyze_chat"
        /\ nextId + predicted.uuids <= MaxIds
        /\ nextId' = nextId + 1 + predicted.uuids
        /\ IF predicted.raised
           THEN /\ Return(p, ChatRaised(p, ChatAnalysisError))
                /\ UNCHANGED intentions
           ELSE /\ intentions' = registered
                /\ \/ Return(p, ChatRaised(p, ChatEnrichmentError))
                   \/ Return(p, ChatRaised(p, ChatKeyError))
        /\ UNCHANGED <<plannerVars, dbVars, issued, turns>>

NextChat ==
    \/ \E p \in Procs, context \in ContextArgs : CreateSession(p, context)
    \/ \E p \in Procs, message \in ChatMessages, context \in ContextArgs :
           StartChatNew(p, message, context)
    \/ \E p \in Procs, message \in ChatMessages, session_id \in RequestIds :
           StartChat(p, message, session_id)
    \/ \E p \in Procs : GetSession(p)
    \/ \E p \in Procs : UpdateLastAccessed(p)
    \/ \E p \in Procs : ChatRespond(p)

SpecChat == Init /\ [][NextChat]_vars

RequiredSearches(intention) ==
    IF intention.analysis.primary_intent = "sql_query"
    THEN {"database_metadata"}
    ELSE {}

\* the section of a refined context that a search fills
SectionOf(refined, search) ==
    IF search = "intention_task_relationships"
    THEN refined.task_context
    ELSE refined.database_context[search]

\* the intention of the last enrichment names its database
NamesDatabase(intention) ==
    /\ "database_name" \in DOMAIN intention.analysis
    /\ intention.analysis.database_name # ""

\* C31: an enrichment of which exactly one search fails, a search the
\* primary intent does not require, still returns a context: the section of
\* the failed search empty, the other sections filled
C31_OneFailedSearchLeavesSectionEmpty ==
    ( /\ lastCall.op = "enrich_context"
      /\ NamesDatabase(lastCall.intention)
      /\ lastCall.failed # "none"
      /\ lastCall.failed \notin RequiredSearches(lastCall.intention) )
    => /\ ~lastCall.raised
       /\ lastCall.returned # None
       /\ SectionOf(lastCall.returned[1], lastCall.failed) = None
       /\ \A search \in Range(Searches) \ {lastCall.failed} :
             SectionOf(lastCall.returned[1], search)
                = ResultsOf(search, lastCall.intention)

\* C32: the enrichment of an intention without database_name fails with the
\* missing-database error, before any search is called
C32_MissingDatabaseFailsBeforeAnySearch ==
    ( /\ lastCall.op = "enrich_context"
      /\ ~NamesDatabase(lastCall.intention) )
    => /\ lastCall.raised
       /\ lastCall.error =
             "Error enriching context: Database name not found in intention"
       /\ lastCall.searched = << >>
       /\ lastCall.returned = None

C32_Witness ==
    /\ lastCall.op = "enrich_context"
    /\ ~NamesDatabase(lastCall.intention)
    /\ lastCall.raised
    /\ \E i \in 1..Len(Refinements) : ~Refinements[i].raised

(***************************************************************************)
(* context_agent.py: the builder of the search query.  A text is the       *)
(* sequence of the pieces it is concatenated from; entities is the dict's  *)
(* items in insertion order, each [type, values].                          *)
(***************************************************************************)
\* the longest list of values, and of constraints, followed
MaxValues == 2

\* sep.join(parts), for parts a list of texts
RECURSIVE join(_, _)
join(sep, parts) ==
    IF Len(parts) = 0 THEN << >>
    ELSE IF Len(parts) = 1 THEN parts[1]
    ELSE parts[1] \o << sep >> \o join(sep, Tail(parts))

\* the strings of a list, each as a text
Texts(strings) == [i \in 1..Len(strings) |-> << strings[i] >>]

\* lines 334-336: the loop over entities.items(), appending to query_parts
RECURSIVE entity_parts(_, _)
entity_parts(query_parts, items) ==
    IF Len(items) = 0 THEN query_parts
    ELSE entity_parts(
            IF Len(items[1].values) > 0
            THEN Append(query_parts,
                        << items[1].type, ": " >>
                           \o join(", ", Texts(items[1].values)))
            ELSE query_parts,
            Tail(items))

\* _build_search_query emitting the constraints segment whatever the list
always_constrained_build_search_query(intention) ==
    LET analysis == intention.analysis
        constraints == Get(analysis, "constraints", << >>)
    IN  join(" ",
             entity_parts(
                IF "primary_intent" \in DOMAIN analysis
                THEN << << "Intent: ", analysis.primary_intent >> >>
                ELSE << >>,
                Get(analysis, "entities", << >>))
             \o << << "Constraints: " >> \o join(", ", Texts(constraints)) >>)

\* _build_search_query(intention)
_build_search_query(intention) ==
    LET analysis == intention.analysis
        intent_parts ==
            IF "primary_intent" \in DOMAIN analysis
            THEN << << "Intent: ", analysis.primary_intent >> >>
            ELSE << >>
        with_entities ==
            entity_parts(intent_parts, Get(analysis, "entities", << >>))
        constraints == Get(analysis, "constraints", << >>)
        query_parts ==
            IF Len(constraints) > 0
            THEN Append(with_entities,
                        << "Constraints: " >> \o join(", ", Texts(constraints)))
            ELSE with_entities
    IN  join(" ", query_parts)

\* the lists of values and of constraints handed to the builder
ValueLists ==
    { SubSeq(<<"orders", "customers", "items", "regions">>, 1, n) :
         n \in 0..MaxValues }

ConstraintLists ==
    { SubSeq(<<"top 5", "year 2024", "active", "EU">>, 1, n) :
         n \in 0..MaxValues }

\* the entities dicts handed to the builder
EntityItems ==
    LET Item(type) == { [type |-> type, values |-> v] : v \in ValueLists }
    IN  { << >> }
        \cup { << i >> : i \in Item("tables") \cup Item("fields") }
        \cup { << i, j >> : i \in Item("tables"), j \in Item("fields") }
        \cup { << j, i >> : i \in Item("tables"), j \in Item("fields") }

\* the intentions handed to the builder
QueryInputs ==
    LET Full == { [analysis |-> [primary_intent |-> pi, entities |-> e,
                                 constraints |-> c]] :
                     pi \in {"sql_query", "explanation"},
                     e \in EntityItems, c \in ConstraintLists }
        Bare == { [analysis |-> [entities |-> e]] : e \in EntityItems }
    IN  Full \cup Bare

BuildSearchQuery(intention) ==
    /\ lastCall' = [op |-> "_build_search_query", raised |-> FALSE,
                    intention |-> intention,
                    returned |-> _build_search_query(intention)]
    /\ UNCHANGED <<nextId, intentions, plans, tasks, storeVars>>

NextQuery == \E intention \in QueryInputs : BuildSearchQuery(intention)

SpecQuery == Init /\ [][NextQuery]_vars

\* the strings of a list with ", " between them
CommaSpaceJoined(strings) ==
    [i \in 1..(2 * Len(strings) - 1) |->
        IF i % 2 = 1 THEN strings[(i + 1) \div 2] ELSE ", "]

\* the segments a search query is made of: the intent, one segment for each
\* entity type with values, the constraints if there are any
Segments(analysis) ==
    LET kept == SelectSeq(analysis.entities, LAMBDA item : item.values # << >>)
    IN  << << "Intent: ", analysis.primary_intent >> >>
        \o [i \in 1..Len(kept) |->
               << kept[i].type, ": " >> \o CommaSpaceJoined(kept[i].values)]
        \o ( IF analysis.constraints # << >>
             THEN << << "Constraints: " >>
                        \o CommaSpaceJoined(analysis.constraints) >>
             ELSE << >> )

\* the pieces of segments, in order
RECURSIVE Concat(_)
Concat(segments) ==
    IF segments = << >> THEN << >>
    ELSE Head(segments) \o Concat(Tail(segments))

\* segments with a space between them
SpaceJoined(segments) ==
    Concat([i \in 1..(2 * Len(segments) - 1) |->
               IF i % 2 = 1 THEN segments[(i + 1) \div 2] ELSE << " " >>])

\* the intention of Scenario 4
Scenario4 ==
    [analysis |->
        [primary_intent |-> "sql_query",
         entities |-> << [type |-> "tables",
                          values |-> <<"orders", "customers">>] >>,
         constraints |-> << >>]]

\* C33: the search query is the space-joined sequence of "Intent: <intent>",
\* one "<type>: <values, comma-space-joined>" segment for each entity type
\* with values, in the entities' order, and "Constraints: <constraints>"
\* only when there are constraints; for Scenario 4 it is
\* "Intent: sql_query tables: orders, customers"
C33_SearchQueryIsItsSegmentsSpaceJoined ==
    ( /\ lastCall.op = "_build_search_query"
      /\ DOMAIN lastCall.intention.analysis
            = {"primary_intent", "entities", "constraints"} )
    => /\ lastCall.returned = SpaceJoined(Segments(lastCall.intention.analysis))
       /\ lastCall.intention = Scenario4
             => lastCall.returned =
                   << "Intent: ", "sql_query", " ",
                      "tables", ": ", "orders", ", ", "customers" >>

C33_Witness ==
    /\ lastCall.op = "_build_search_query"
    /\ lastCall.intention = Scenario4
    /\ lastCall.returned =
          << "Intent: ", "sql_query", " ",
             "tables", ": ", "orders", ", ", "customers" >>

(***************************************************************************)
(* The WebSocket endpoint /chat (routers/nl2sql.py, lines 62-99).  A       *)
(* connection is a loop: receive a message, call chat() with the message's *)
(* session_id and context, send the answer.  A handler p of the model is   *)
(* one connection, its turns are the messages it receives one after the    *)
(* other.  The store holds sessions that earlier requests created.         *)
(***************************************************************************)
MaxSocketSessions == 2

Connections == Procs

InitSocket ==
    /\ nextId = 1
    /\ intentions = EmptyDict
    /\ plans = EmptyDict
    /\ tasks = EmptyDict
    /\ lastCall = [op |-> "none", raised |-> FALSE]
    /\ now = 0
    /\ sessions = [s \in 1..MaxSocketSessions |->
                      [created_at |-> 0, last_accessed |-> 0,
                       is_active |-> TRUE]]
    /\ nextSession = MaxSocketSessions + 1
    /\ session_variables = [s \in 1..MaxSocketSessions |-> EmptyDict]
    /\ issued = 1..MaxSocketSessions
    /\ turns = 0
    /\ proc = [p \in Connections |-> Idle(NoOutcome)]

\* lines 72-80: the connection receives a message that carries session_id
\* and calls chat() with it
SocketReceive(p, message, session_id) == StartChat(p, message, session_id)

NextSocket ==
    \/ \E p \in Connections, message \in ChatMessages,
          session_id \in RequestIds : SocketReceive(p, message, session_id)
    \/ \E p \in Connections : GetSession(p)
    \/ \E p \in Connections : UpdateLastAccessed(p)
    \/ \E p \in Connections : ChatRespond(p)

SpecSocket == InitSocket /\ [][NextSocket]_vars

\* C34: a WebSocket connection is bound to one session for its lifetime:
\* once a connection has had a turn on a session, every later turn of the
\* connection is on that session
C34_ConnectionKeepsItsSession ==
    [][ \A p \in Connections :
          ( /\ proc[p].pc = "idle"
            /\ proc[p].ret.op = "chat"
            /\ proc[p].ret.session_id \in DOMAIN sessions
            /\ proc'[p].op = "chat" )
          => proc'[p].session_id = proc[p].ret.session_id ]_vars

startswith(filename, prefix) ==
    /\ Len(filename) > Len(prefix)
    /\ SubSeq(filename, 1, Len(prefix)) = prefix

Endpoints == {"database-info", "table-info", "query-examples", "table-details"}

\* the prefix each endpoint tests the file name for (lines 65, 108, 151, 188)
TestedPrefix(endpoint) ==
    CASE endpoint = "database-info" -> <<"db", "info">>
      [] endpoint = "table-info" -> <<"tb", "info">>
      [] endpoint = "query-examples" -> <<"query", "examples">>
      [] endpoint = "table-details" -> <<"tb", "details">>

\* the steps of DBController.process_* that can raise
ProcessingFailures == {"none", "read_csv", "postgres", "vector"}

\* what the processing of an accepted file answers and which stores it has
\* written: process_database_metadata, process_table_metadata and
\* process_query_examples read the CSV, update PostgreSQL, then the vector
\* store; update_table_details is handed the un-awaited coroutine of
\* process_csv_file and raises at items[0]
process_file(endpoint, failing) ==
    IF endpoint = "table-details"
    THEN [status_code |-> 500, updated |-> {}]
    ELSE CASE failing = "read_csv" -> [status_code |-> 500, updated |-> {}]
           [] failing = "postgres" -> [status_code |-> 500, updated |-> {}]
           [] failing = "vector" ->
                 [status_code |-> 500, updated |-> {"postgres"}]
           [] OTHER ->
                 [status_code |-> 201, updated |-> {"postgres", "vector"}]

\* an update endpoint called with a file
update_with_file(endpoint, filename, failing) ==
    IF ~startswith(filename, TestedPrefix(endpoint))
    THEN [status_code |-> 400, updated |-> {}]
    ELSE process_file(endpoint, failing)

FileNames ==
    { <<"db", "sales">>, <<"db", "info", "sales">>,
      <<"tb", "orders">>, <<"tb", "info", "orders">>,
      <<"tb", "details", "orders">>,
      <<"sample", "orders">>, <<"query", "examples", "orders">>,
      <<"orders">> }

Upload(endpoint, filename, failing) ==
    /\ lastCall' = [op |-> "update_with_file", raised |-> FALSE,
                    endpoint |-> endpoint, filename |-> filename,
                    failing |-> failing,
                    response |-> update_with_file(endpoint, filename, failing)]
    /\ UNCHANGED <<nextId, intentions, plans, tasks, storeVars>>

NextUpload ==
    \E endpoint \in Endpoints, filename \in FileNames,
       failing \in ProcessingFailures : Upload(endpoint, filename, failing)

SpecUpload == Init /\ [][NextUpload]_vars

\* the prefix a file name must have at an endpoint
RequiredPrefix(endpoint) ==
    CASE endpoint = "database-info" -> <<"db">>
      [] endpoint = "table-info" -> <<"tb">>
      [] endpoint = "query-examples" -> <<"sample">>
      [] endpoint = "table-details" -> <<"tb", "details">>

\* C36: an upload whose file name does not start with the endpoint's
\* required prefix ('db_', 'tb_', 'tb_details_', 'sample_') is answered 400
\* and updates no store; a file name that starts with the required prefix
\* is not answered 400
C36_WrongPrefixIsRejectedRightPrefixIsNot ==
    lastCall.op = "update_with_file"
    => IF startswith(lastCall.filename, RequiredPrefix(lastCall.endpoint))
       THEN lastCall.response.status_code # 400
       ELSE /\ lastCall.response.status_code = 400
            /\ lastCall.response.updated = {}

(***************************************************************************)
(* intention_agent.py: update_intention_status.                            *)
(***************************************************************************)
\* the result argument: None or a dict
StatusResults == { None, Some([rows |-> 1]) }

\* update_intention_status(intention_id, status, result): raises for an
\* unregistered id; else stores status.value, and the result if it is truthy
update_intention_status(intention_id, status, result) ==
    IF intention_id \notin DOMAIN intentions
    THEN [raised |-> TRUE, intentions |-> intentions]
    ELSE [raised |-> FALSE,
          intentions |->
             [intentions EXCEPT ![intention_id] =
                 IF result # None
                 THEN Put([@ EXCEPT !.status = status], "result", result[1])
                 ELSE [@ EXCEPT !.status = status]]]

UpdateIntentionStatus(intention_id, status, result) ==
    LET r == update_intention_status(intention_id, status, result)
    IN  /\ intentions' = r.intentions
        /\ lastCall' = [op |-> "update_intention_status", raised |-> r.raised,
                        intention_id |-> intention_id, status |-> status]
        /\ UNCHANGED <<nextId, plans, tasks, storeVars>>

NextStatus ==
    \/ \E prompt \in Prompts : AnalyzeCompletion(prompt)
    \/ \E intention_id \in 1..MaxIds, status \in IntentionStatus,
          result \in StatusResults :
           UpdateIntentionStatus(intention_id, status, result)

SpecStatus == Init /\ [][NextStatus]_vars

\* how far a status is on the way pending -> active -> completed | failed
StatusRank(status) ==
    CASE status = "pending" -> 0
      [] status = "active" -> 1
      [] OTHER -> 2

\* C37: an intention is created pending, its status never moves back to an
\* earlier one and never leaves completed or failed
C37_StatusOnlyAdvances ==
    [][ /\ \A i \in DOMAIN intentions' \ DOMAIN intentions :
              intentions'[i].status = "pending"
        /\ \A i \in DOMAIN intentions :
              /\ i \in DOMAIN intentions'
              /\ StatusRank(intentions'[i].status)
                    >= StatusRank(intentions[i].status)
              /\ intentions[i].status \in {"completed", "failed"}
                    => intentions'[i].status = intentions[i].status ]_vars

\* list a is a prefix of list b
IsPrefixOf(a, b) ==
    /\ Len(a) <= Len(b)
    /\ SubSeq(b, 1, Len(a)) = a

C39_FailedStatusUpdateChangesNothing ==
    [][ ( /\ lastCall'.op = "update_task_status"
          /\ lastCall'.raised )
        => /\ DOMAIN tasks' = DOMAIN tasks
           /\ \A t \in DOMAIN tasks :
                 /\ tasks'[t].status = tasks[t].status
                 /\ "result" \in DOMAIN tasks'[t] <=> "result" \in DOMAIN tasks[t]
                 /\ "result" \in DOMAIN tasks[t]
                       => tasks'[t].result = tasks[t].result
           /\ \A plan_id \in DOMAIN plans :
                 plans'[plan_id].status = plans[plan_id].status ]_vars

\* the context the store holds for a session
StoredContext(session_id) ==
    [k \in DOMAIN session_variables[session_id] |->
        StoredValue(session_variables[session_id][k])]

\* handler p is in a turn on a session that existed before the turn
InTurnOnExisting(p) ==
    /\ proc[p].op = "chat_completions"
    /\ ~proc[p].created
    /\ proc[p].session_id \in DOMAIN sessions

====
